---- MODULE Spec2Model ----
(***************************************************************************)
(* Nutrition-estimate reconciliation engine of macro-factor (AROMI).       *)
(*                                                                         *)
(* Numbers.  Every calorie and macro quantity is an integer count of       *)
(* TENTHS (K(136) is 136 kcal, 1553 is 155.3 kcal): the adapters round to  *)
(* one decimal and the model fallback may answer with a fraction.  Grams   *)
(* are whole numbers, as the client sends them (parseInt).                 *)
(* An optional value (T | null | undefined) is a sequence of length 0 or 1.*)
(*                                                                         *)
(* Text.  A food text is a sequence of tokens separated by single blanks;  *)
(* a token is a maximal run of word characters, here an optional digit run *)
(* followed by an optional lower-case word ("5g" = NW(5, "g")).  A regex   *)
(* \b(w1|w2)\b therefore matches when some token is exactly that word.     *)
(***************************************************************************)
EXTENDS Integers, Sequences, FiniteSets, TLC

VARIABLES
    fn,       \* pure-function harness: the function under application
    args,     \* pure-function harness: its inputs
    outs,     \* pure-function harness: the values returned so far
    pc,       \* POST /api/aromi: position of the handler
    body,     \* POST /api/aromi: the parsed request body
    cn,       \* getCalorieNinjasNutrition promise: [st, val]
    off,      \* searchNutrition promise: the same
    apiNutrition, \* POST /api/aromi: the local apiNutrition
    loc,      \* POST /api/aromi: the handler's locals at return
    groq,     \* the key, HTTP exchange and content callGroq met
    resp      \* POST /api/aromi: the response sent

harnessVars == <<fn, args, outs>>
serverVars == <<pc, body, cn, off, apiNutrition, groq, loc, resp>>
vars == <<fn, args, outs, pc, body, cn, off, apiNutrition, groq, loc, resp>>

(***************************************************************************)
(* Optional values and arithmetic                                          *)
(***************************************************************************)
None == << >>
Some(x) == <<x>>
IsSome(o) == Len(o) = 1
Get(o) == o[1]

\* whole kcal (or grams) expressed in tenths
K(n) == n * 10

Min2(a, b) == IF a <= b THEN a ELSE b
Max2(a, b) == IF a >= b THEN a ELSE b

\* Math.round(p / q) for an exactly computed p / q, q > 0: half rounds up
Round(p, q) == (2 * p + q) \div (2 * q)

\* Math.round of a double whose exact value would be p / q but which was
\* computed through inexact intermediate steps: off a tie the result is
\* Round(p, q); on a tie (p / q = n + 1/2) the double may lie on either side.
RoundInexact(p, q) ==
    IF (2 * p) % q = 0 /\ ((2 * p) \div q) % 2 = 1
    THEN {p \div q, p \div q + 1}
    ELSE {Round(p, q)}

(***************************************************************************)
(* Food text                                                               *)
(***************************************************************************)
W(w) == [num |-> None, word |-> w]
N(n) == [num |-> Some(n), word |-> ""]
NW(n, w) == [num |-> Some(n), word |-> w]

\* /\b(p1|p2|...)\b/i.test(text): each alternative is a sequence of words
\* that must appear as adjacent whole tokens ("protein\s*powder" is the
\* alternatives <<"protein", "powder">> and <<"proteinpowder">>)
Matches(text, phrases) ==
    \E p \in phrases : \E i \in 1..Len(text) :
        /\ i + Len(p) - 1 <= Len(text)
        /\ \A j \in 1..Len(p) : text[i + j - 1] = W(p[j])

Words(ws) == {<<w>> : w \in ws}

(***************************************************************************)
(* food-sanity: clampCaloriesByCategory                                    *)
(***************************************************************************)
CATEGORY_KCAL_PER_100G == <<
    [pattern |-> Words({"egg", "eggs"}), min |-> 130, max |-> 200],
    [pattern |-> Words({"rice", "chawal", "biryani"}), min |-> 100, max |-> 200],
    [pattern |-> Words({"dal", "lentil", "curry", "sambar"}), min |-> 80, max |-> 180],
    [pattern |-> Words({"chicken", "murg", "paneer", "tofu"}), min |-> 120, max |-> 280],
    [pattern |-> Words({"roti", "chapati", "phulka", "paratha", "naan", "bread"}), min |-> 200, max |-> 380],
    [pattern |-> Words({"milk", "doodh"}), min |-> 40, max |-> 70],
    [pattern |-> Words({"banana", "apple", "fruit"}), min |-> 50, max |-> 100],
    [pattern |-> Words({"potato", "aloo"}), min |-> 60, max |-> 100],
    [pattern |-> Words({"butter", "ghee", "oil"}), min |-> 650, max |-> 900],
    [pattern |-> Words({"whey", "proteinpowder"}) \cup {<<"protein", "powder">>}, min |-> 350, max |-> 450],
    [pattern |-> Words({"vegetable", "sabzi", "curry"}), min |-> 20, max |-> 120],
    [pattern |-> Words({"fish", "prawn", "shrimp"}), min |-> 80, max |-> 180],
    [pattern |-> Words({"beef", "mutton", "lamb"}), min |-> 150, max |-> 350],
    [pattern |-> Words({"sugar", "honey", "jaggery"}), min |-> 300, max |-> 400],
    [pattern |-> Words({"nuts", "almond", "peanut", "cashew"}), min |-> 500, max |-> 650],
    [pattern |-> Words({"curd", "yogurt", "dahi"}), min |-> 50, max |-> 120],
    [pattern |-> Words({"flour", "atta", "maida"}), min |-> 330, max |-> 380] >>

DEFAULT_MIN_KCAL_PER_100 == 30
DEFAULT_MAX_KCAL_PER_100 == 500

\* the scan without its break: the last matching row wins
CategoryRangeLast(foodText) ==
    LET hits == {i \in 1..Len(CATEGORY_KCAL_PER_100G) :
                    Matches(foodText, CATEGORY_KCAL_PER_100G[i].pattern)}
    IN  IF hits = {}
        THEN [min |-> DEFAULT_MIN_KCAL_PER_100, max |-> DEFAULT_MAX_KCAL_PER_100]
        ELSE LET last == CHOOSE i \in hits : \A j \in hits : i >= j
             IN  [min |-> CATEGORY_KCAL_PER_100G[last].min,
                  max |-> CATEGORY_KCAL_PER_100G[last].max]

\* the for ... break scan of clampCaloriesByCategory: the first row whose
\* pattern matches, or the default range
CategoryRange(foodText) ==
    LET hits == {i \in 1..Len(CATEGORY_KCAL_PER_100G) :
                    Matches(foodText, CATEGORY_KCAL_PER_100G[i].pattern)}
    IN  IF hits = {}
        THEN [min |-> DEFAULT_MIN_KCAL_PER_100, max |-> DEFAULT_MAX_KCAL_PER_100]
        ELSE LET first == CHOOSE i \in hits : \A j \in hits : i <= j
             IN  [min |-> CATEGORY_KCAL_PER_100G[first].min,
                  max |-> CATEGORY_KCAL_PER_100G[first].max]

\* clampCaloriesByCategory returning the clamped density itself, the
\* conversion back to the serving (* effectiveG / 100) forgotten
clampNoScaleBack(foodText, calories, grams) ==
    IF calories <= 0 THEN {calories}
    ELSE LET effectiveG == IF grams > 0 THEN grams ELSE 100
             r == CategoryRange(foodText)
         IN  IF 10 * calories < r.min * effectiveG THEN {K(r.min)}
             ELSE IF 10 * calories > r.max * effectiveG THEN {K(r.max)}
             ELSE {K(x) : x \in RoundInexact(100 * calories, 10 * effectiveG)}

\* clampCaloriesByCategory with the lower bound dropped
\* (Math.min(maxPer100, kcalPer100) without the Math.max)
clampNoFloor(foodText, calories, grams) ==
    IF calories <= 0 THEN {calories}
    ELSE LET effectiveG == IF grams > 0 THEN grams ELSE 100
             r == CategoryRange(foodText)
         IN  IF 10 * calories > r.max * effectiveG
                THEN {K(Round(r.max * effectiveG, 100))}
             ELSE {K(x) : x \in RoundInexact(calories, 10)}

\* The set of values clampCaloriesByCategory(foodText, calories, grams) can
\* return (calories in tenths, the result in tenths).  When the density
\* kcalPer100 = calories / effectiveG * 100 is clamped, the result is
\* round(bound * effectiveG / 100), an exact quotient; when it is not, the
\* result is the round of (calories / effectiveG * 100) * effectiveG / 100,
\* which is calories up to the rounding error of the division.  A density
\* of exactly min gives round(min * effectiveG / 100) on either path:
\* Math.max keeps the double at or above min, and the product and the
\* quotient that follow are monotone.
clampCaloriesByCategory(foodText, calories, grams) ==
    IF calories <= 0 THEN {calories}
    ELSE LET effectiveG == IF grams > 0 THEN grams ELSE 100
             r == CategoryRange(foodText)
         IN  IF 10 * calories <= r.min * effectiveG
                THEN {K(Round(r.min * effectiveG, 100))}
             ELSE IF 10 * calories > r.max * effectiveG
                THEN {K(Round(r.max * effectiveG, 100))}
             ELSE {K(x) : x \in RoundInexact(calories, 10)}

(***************************************************************************)
(* JSON values and numbers.  A raw value of the model's answer is          *)
(*   [kind |-> "number", v |-> tenths]   a finite number                   *)
(*   [kind |-> "Infinity" | "-Infinity" | "NaN"]   (1e999 parses to        *)
(*       Infinity; NaN reaches only the client-side functions)             *)
(*   [kind |-> "string", s |-> sequence of characters]                     *)
(*   [kind |-> "undefined"]   absent or null                               *)
(***************************************************************************)
Num(v) == [kind |-> "number", v |-> v]
Str(cs) == [kind |-> "string", s |-> cs]
NaN == [kind |-> "NaN"]
Infinity == [kind |-> "Infinity"]
NegInfinity == [kind |-> "-Infinity"]
Undefined == [kind |-> "undefined"]

DigitChars == <<"0", "1", "2", "3", "4", "5", "6", "7", "8", "9">>
IsDigit(c) == \E i \in 1..Len(DigitChars) : DigitChars[i] = c
DigitOf(c) == (CHOOSE i \in 1..Len(DigitChars) : DigitChars[i] = c) - 1

RECURSIVE DigitsValue(_)
DigitsValue(ds) ==
    IF ds = << >> THEN 0
    ELSE 10 * DigitsValue(SubSeq(ds, 1, Len(ds) - 1)) + DigitOf(ds[Len(ds)])

\* String(raw).replace(/[^\d.]/g, "")
StripNonNumeric(cs) == SelectSeq(cs, LAMBDA c : IsDigit(c) \/ c = ".")

\* Number(s) for a string of digits and dots: "" is 0; digits with at most
\* one dot and at least one digit are that decimal; anything else is NaN.
\* (The strings modelled carry at most one digit after the dot.)
JsNumber(cs) ==
    LET dots == {i \in 1..Len(cs) : cs[i] = "."}
    IN  IF cs = << >> THEN Num(0)
        ELSE IF Cardinality(dots) > 1 \/ Len(cs) = Cardinality(dots) THEN NaN
        ELSE IF dots = {} THEN Num(K(DigitsValue(cs)))
        ELSE LET d == CHOOSE i \in dots : TRUE
                 whole == SubSeq(cs, 1, d - 1)
                 frac == SubSeq(cs, d + 1, Len(cs))
             IN  Num(K(DigitsValue(whole))
                     + (IF frac = << >> THEN 0 ELSE DigitOf(frac[1])))

(***************************************************************************)
(* Unit sanitizer: sanitizeCalories (api/aromi/route.ts)                   *)
(***************************************************************************)
MAX_KCAL_PER_SERVING == 2000
JOULE_CEILING == 500000
JOULES_PER_KCAL == 4184

\* const n = typeof raw === "number" ? raw
\*         : typeof raw === "string" ? Number(String(raw).replace(...)) : NaN
RawToNumber(raw) ==
    IF raw.kind \in {"number", "Infinity", "-Infinity", "NaN"} THEN raw
    ELSE IF raw.kind = "string" THEN JsNumber(StripNonNumeric(raw.s))
    ELSE NaN

\* sanitizeCalories without the conversion from joules
sanitizeCaloriesNoJoules(raw) ==
    LET n == RawToNumber(raw)
    IN  IF n.kind # "number" \/ n.v <= 0 THEN None
        ELSE IF n.v <= K(MAX_KCAL_PER_SERVING) THEN Some(K(Round(n.v, 10)))
        ELSE Some(K(MAX_KCAL_PER_SERVING))

\* sanitizeCalories with the rejection test written n < 0
sanitizeCaloriesZeroKept(raw) ==
    LET n == RawToNumber(raw)
    IN  IF n.kind # "number" \/ n.v < 0 THEN None
        ELSE IF n.v <= K(MAX_KCAL_PER_SERVING) THEN Some(K(Round(n.v, 10)))
        ELSE IF n.v > K(MAX_KCAL_PER_SERVING) /\ n.v < K(JOULE_CEILING)
            THEN LET asKcal == Round(n.v, K(JOULES_PER_KCAL))
                 IN  IF asKcal <= MAX_KCAL_PER_SERVING
                     THEN Some(K(asKcal)) ELSE Some(K(MAX_KCAL_PER_SERVING))
        ELSE Some(K(MAX_KCAL_PER_SERVING))

\* sanitizeCalories(raw): null (None) or a number of kcal, in tenths
sanitizeCalories(raw) ==
    LET n == RawToNumber(raw)
    IN  IF n.kind # "number" \/ n.v <= 0 THEN None
        ELSE IF n.v <= K(MAX_KCAL_PER_SERVING) THEN Some(K(Round(n.v, 10)))
        ELSE IF n.v > K(MAX_KCAL_PER_SERVING) /\ n.v < K(JOULE_CEILING)
            THEN LET asKcal == Round(n.v, K(JOULES_PER_KCAL))
                 IN  IF asKcal <= MAX_KCAL_PER_SERVING
                     THEN Some(K(asKcal)) ELSE Some(K(MAX_KCAL_PER_SERVING))
        ELSE Some(K(MAX_KCAL_PER_SERVING))

(***************************************************************************)
(* Quantities read from the text                                           *)
(***************************************************************************)
\* foodText.match(/(\d+)\s*(unit)?/i) || foodText.match(/^(\d+)/), match[1]:
\* the unit group is optional, so the match is the leftmost digit run of
\* the text, whatever follows it
FirstDigitRun(foodText) ==
    LET at == {i \in 1..Len(foodText) : foodText[i].num # None}
    IN  IF at = {} THEN None
        ELSE foodText[CHOOSE i \in at : \A j \in at : i <= j].num

\* the quantity taken as written, without Math.min and Math.max
QuantityUnclamped(foodText, max, default) ==
    LET match == FirstDigitRun(foodText)
    IN  IF IsSome(match) THEN Get(match) ELSE default

\* match ? Math.min(max, Math.max(1, parseInt(match[1], 10))) : default
Quantity(foodText, max, default) ==
    LET match == FirstDigitRun(foodText)
    IN  IF IsSome(match) THEN Min2(max, Max2(1, Get(match))) ELSE default

\* parseGramsFromFoodText / parseGramsFromText:
\* foodText.match(/(\d+)\s*g\b/i) || foodText.match(/\b(\d+)\s*grams?\b/i)
\* then n > 0 && n <= 1000 ? n : undefined
UnitAt(foodText, i, units) ==
    /\ foodText[i].num # None
    /\ \/ foodText[i].word \in units
       \/ /\ foodText[i].word = ""
          /\ i + 1 <= Len(foodText)
          /\ foodText[i + 1].num = None
          /\ foodText[i + 1].word \in units

parseGramsFromFoodText(foodText) ==
    LET g == {i \in 1..Len(foodText) : UnitAt(foodText, i, {"g"})}
        grams == {i \in 1..Len(foodText) : UnitAt(foodText, i, {"gram", "grams"})}
        m == IF g # {} THEN g ELSE grams
    IN  IF m = {} THEN None
        ELSE LET n == Get(foodText[CHOOSE i \in m : \A j \in m : i <= j].num)
             IN  IF n > 0 /\ n <= 1000 THEN Some(n) ELSE None

\* (grams && grams > 0) ? grams : parseGramsFromFoodText(foodText)
KnownGrams(foodText, grams) ==
    IF IsSome(grams) /\ Get(grams) > 0 THEN grams
    ELSE parseGramsFromFoodText(foodText)

(***************************************************************************)
(* Override engine of the client (app/page.tsx)                            *)
(***************************************************************************)
BreadWords == Words({"chapati", "chappati", "roti", "phulka", "paratha"})
EggWords == Words({"egg", "eggs"})
WheyWords == Words({"whey", "proteinpowder", "scoop", "schoop"})
                \cup {<<"protein", "powder">>}
FatWords == Words({"butter", "ghee", "oil", "amul", "refined"})
OilWords == Words({"oil", "refined", "mustard", "olive"})

capChapatiRotiCalories(foodText, calories) ==
    IF ~Matches(foodText, BreadWords) THEN calories
    ELSE LET pieces == Quantity(foodText, 10, 2)
             maxPerPiece == 90
         IN  Min2(calories, K(pieces * maxPerPiece))

capEggCalories(foodText, calories) ==
    IF ~Matches(foodText, EggWords) THEN calories
    ELSE LET count == Quantity(foodText, 20, 1)
             maxPerEgg == 90
         IN  Min2(calories, K(count * maxPerEgg))

floorWheyCalories(foodText, calories) ==
    IF ~Matches(foodText, WheyWords) THEN calories
    ELSE LET scoops == Quantity(foodText, 5, 1)
             minPerScoop == 100
         IN  Max2(calories, K(scoops * minPerScoop))

\* minCal = Math.round(g * kcalPerGram * 0.8), kcalPerGram 9 or 7.2
floorButterOilCalories(foodText, calories, grams) ==
    LET g == KnownGrams(foodText, grams)
    IN  IF ~IsSome(g) THEN calories
        ELSE IF ~Matches(foodText, FatWords) THEN calories
        ELSE LET minCal == IF Matches(foodText, OilWords)
                           THEN Round(Get(g) * 72, 10)
                           ELSE Round(Get(g) * 576, 100)
             IN  Max2(calories, K(minCal))

\* floorEggCalories adding the egg minimum to the value
floorEggCaloriesAdded(foodText, calories) ==
    IF ~Matches(foodText, EggWords) THEN calories
    ELSE calories + K(Quantity(foodText, 20, 1) * 70)

floorEggCalories(foodText, calories) ==
    IF ~Matches(foodText, EggWords) THEN calories
    ELSE LET count == Quantity(foodText, 20, 1)
             minPerEgg == 70
         IN  Max2(calories, K(count * minPerEgg))

\* oilMin = oilG ? Math.round(oilG * 7 * 0.8) : 0
combinedEggOilFloor(foodText, calories, grams) ==
    IF ~Matches(foodText, EggWords) \/ ~Matches(foodText, FatWords) THEN calories
    ELSE LET eggCount == Quantity(foodText, 20, 1)
             oilG == KnownGrams(foodText, grams)
             oilMin == IF IsSome(oilG) THEN Round(Get(oilG) * 56, 10) ELSE 0
             combinedMin == eggCount * 70 + oilMin
         IN  Max2(calories, K(combinedMin))

capFoodCalories(foodText, calories, grams) ==
    LET out1 == floorWheyCalories(foodText, calories)
        out2 == combinedEggOilFloor(foodText, out1, grams)
        out3 == floorButterOilCalories(foodText, out2, grams)
        out4 == floorEggCalories(foodText, out3)
        out5 == capChapatiRotiCalories(foodText, out4)
        out6 == capEggCalories(foodText, out5)
    IN  out6

(***************************************************************************)
(* Override engine of the server (api/aromi/route.ts)                      *)
(***************************************************************************)
\* WHEY_PER_SCOOP, in tenths
WHEY_PER_SCOOP ==
    [calories |-> K(120), protein_g |-> K(24), carbs_g |-> K(2), fat_g |-> 15]

wheyOverride(foodText, currentCalories, grams) ==
    IF ~Matches(foodText, WheyWords) THEN None
    ELSE LET scoops == Quantity(foodText, 5, 1)
             minSaneCal == 70 * scoops
         IN  IF currentCalories >= K(minSaneCal) THEN None
             ELSE Some([calories |-> WHEY_PER_SCOOP.calories * scoops,
                        protein_g |-> WHEY_PER_SCOOP.protein_g * scoops,
                        carbs_g |-> WHEY_PER_SCOOP.carbs_g * scoops,
                        fat_g |-> WHEY_PER_SCOOP.fat_g * scoops])

ButterWords == Words({"butter", "ghee", "amul"})
ServerOilWords == Words({"oil", "refined", "mustardoil", "olive"})
                    \cup {<<"mustard", "oil">>}
SkipFatWords == Words({"butter", "ghee", "oil", "amul"})

\* fatOverride without the test of the butter and oil keywords
fatOverrideAnyFood(foodText, currentCalories, grams) ==
    LET g == KnownGrams(foodText, grams)
    IN  IF ~IsSome(g) THEN None
        ELSE IF Get(g) > 500 THEN None
        ELSE LET expectedCal == Get(g) * 9
             IN  IF 2 * currentCalories >= K(expectedCal) THEN None
                 ELSE Some([calories |-> K(expectedCal),
                            protein_g |-> 0, carbs_g |-> 0,
                            fat_g |-> Round(Get(g) * 99, 10)])

\* expectedCal = Math.round(g * kcalPerGram), kcalPerGram 7.2 or 9;
\* fat_g = Math.round(g * 0.99 * 10) / 10
fatOverride(foodText, currentCalories, grams) ==
    LET g == KnownGrams(foodText, grams)
    IN  IF ~IsSome(g) THEN None
        ELSE IF Get(g) > 500 THEN None
        ELSE LET isButter == Matches(foodText, ButterWords)
                 isOil == Matches(foodText, ServerOilWords)
             IN  IF ~isButter /\ ~isOil THEN None
                 ELSE LET expectedCal == IF isButter THEN Round(Get(g) * 72, 10)
                                         ELSE Get(g) * 9
                      IN  IF 2 * currentCalories >= K(expectedCal) THEN None
                          ELSE Some([calories |-> K(expectedCal),
                                     protein_g |-> 0, carbs_g |-> 0,
                                     fat_g |-> Round(Get(g) * 99, 10)])

(***************************************************************************)
(* POST /api/aromi (api/aromi/route.ts): the reconciler                    *)
(***************************************************************************)
\* the confidence strings ("+/-" stands for the plus-minus sign)
PM10 == "+/-10%"
PM10_SCOOP == "+/-10% (typical scoop)"
PM10_TYPICAL == "+/-10% (typical)"

\* the confidence string with the annotation of an override left out
ConfidenceUnannotated(whey, fat, stated) == stated

\* whey ? "+/-10% (typical scoop)" : fat ? "+/-10% (typical)" : stated
Confidence(whey, fat, stated) ==
    IF IsSome(whey) THEN PM10_SCOOP
    ELSE IF IsSome(fat) THEN PM10_TYPICAL
    ELSE stated

\* body.grams != null && body.grams > 0 ? body.grams : undefined
PositiveGrams(grams) ==
    IF IsSome(grams) /\ Get(grams) > 0 THEN grams ELSE None

\* the scaling step with grams / 100 applied to both sources
ScaledNutritionAlways(api, bodyGrams) ==
    LET grams == IF IsSome(PositiveGrams(bodyGrams)) THEN Get(bodyGrams) ELSE 100
    IN  {[calories |-> K(c), protein_g |-> p, carbs_g |-> cb, fat_g |-> f] :
            c \in RoundInexact(api.calories * grams, 1000),
            p \in RoundInexact(api.protein_g * grams, 100),
            cb \in RoundInexact(api.carbs_g * grams, 100),
            f \in RoundInexact(api.fat_g * grams, 100)}

\* the scaling step with every source taken for totals (scale 1)
ScaledNutritionNever(api, bodyGrams) ==
    {[calories |-> api.calories,
      protein_g |-> Round(api.protein_g, 1),
      carbs_g |-> Round(api.carbs_g, 1),
      fat_g |-> Round(api.fat_g, 1)]}

\* calories, protein_g, carbs_g, fat_g as they enter the override step: the
\* CalorieNinjas totals as they are (scale 1), the Open Food Facts values
\* per 100 g times grams / 100.  scale is an exact double when grams is a
\* multiple of 25; the macros (k / 10) are not exact doubles.
ScaledNutrition(api, bodyGrams) ==
    LET fromCalorieNinjas == api.source = "calorieninjas"
        grams == IF IsSome(PositiveGrams(bodyGrams)) THEN Get(bodyGrams) ELSE 100
    IN  IF fromCalorieNinjas
        THEN {[calories |-> api.calories,
               protein_g |-> Round(api.protein_g, 1),
               carbs_g |-> Round(api.carbs_g, 1),
               fat_g |-> Round(api.fat_g, 1)]}
        ELSE {[calories |-> K(c), protein_g |-> p, carbs_g |-> cb, fat_g |-> f] :
                c \in (IF grams % 25 = 0
                       THEN {Round(api.calories * grams, 1000)}
                       ELSE RoundInexact(api.calories * grams, 1000)),
                p \in RoundInexact(api.protein_g * grams, 100),
                cb \in RoundInexact(api.carbs_g * grams, 100),
                f \in RoundInexact(api.fat_g * grams, 100)}

Macros(r) == [protein_g |-> r.protein_g, carbs_g |-> r.carbs_g, fat_g |-> r.fat_g]

\* skipOff without the test of the source
SkipOffAnySource(foodText, bodyGrams, api, calories) ==
    LET effectiveGrams == KnownGrams(foodText, bodyGrams)
        isFat == Matches(foodText, SkipFatWords)
        minSaneForFat == IF IsSome(effectiveGrams) /\ isFat
                         THEN Get(effectiveGrams) * 5 ELSE 0
    IN  isFat /\ calories < K(minSaneForFat)

\* skipOff: Open Food Facts data judged wrong for a fat
SkipOff(foodText, bodyGrams, api, calories) ==
    LET fromCalorieNinjas == api.source = "calorieninjas"
        effectiveGrams == KnownGrams(foodText, bodyGrams)
        isFat == Matches(foodText, SkipFatWords)
        minSaneForFat == IF IsSome(effectiveGrams) /\ isFat
                         THEN Get(effectiveGrams) * 5 ELSE 0
    IN  ~fromCalorieNinjas /\ isFat /\ calories < K(minSaneForFat)

\* the same branch preferring the model's calories when they are sane
ApiBranchModelCalories(b, api, ai, n) ==
    LET gramsArg == PositiveGrams(b.grams)
        whey == wheyOverride(b.food_text, n.calories, gramsArg)
        fat == fatOverride(b.food_text, n.calories, gramsArg)
        o == IF IsSome(whey) THEN Get(whey) ELSE IF IsSome(fat) THEN Get(fat) ELSE n
        effectiveG == IF IsSome(gramsArg) THEN Get(gramsArg) ELSE 100
        sane == sanitizeCalories(ai.estimated_calories)
    IN  {[loc |-> [branch |-> "api",
                   fromCalorieNinjas |-> api.source = "calorieninjas",
                   skipOff |-> FALSE, scaled |-> Some(n),
                   calories0 |-> n.calories, whey |-> whey, fat |-> fat,
                   overridden |-> o.calories, clamped |-> Some(calories),
                   raw |-> Undefined, sane |-> None, ai |-> ai],
          data |-> [estimated_calories |->
                        IF IsSome(sane) THEN Num(Get(sane))
                        ELSE Num(Min2(calories, K(2000))),
                    calories |-> ai.calories,
                    confidence_range |-> Confidence(whey, fat, api.confidence_range),
                    macros |-> Macros(o)]] :
            calories \in clampCaloriesByCategory(b.food_text, o.calories, effectiveG)}

\* the branch "if (... apiNutrition ...)" when skipOff is false: the
\* handler's locals and the response data, for each scaled value n
ApiBranch(b, api, ai, n) ==
    LET gramsArg == PositiveGrams(b.grams)
        whey == wheyOverride(b.food_text, n.calories, gramsArg)
        fat == fatOverride(b.food_text, n.calories, gramsArg)
        o == IF IsSome(whey) THEN Get(whey) ELSE IF IsSome(fat) THEN Get(fat) ELSE n
        effectiveG == IF IsSome(gramsArg) THEN Get(gramsArg) ELSE 100
    IN  {[loc |-> [branch |-> "api",
                   fromCalorieNinjas |-> api.source = "calorieninjas",
                   skipOff |-> FALSE, scaled |-> Some(n),
                   calories0 |-> n.calories, whey |-> whey, fat |-> fat,
                   overridden |-> o.calories, clamped |-> Some(calories),
                   raw |-> Undefined, sane |-> None, ai |-> ai],
          data |-> [estimated_calories |-> Num(Min2(calories, K(2000))),
                    calories |-> ai.calories,
                    confidence_range |-> Confidence(whey, fat, api.confidence_range),
                    macros |-> Macros(o)]] :
            calories \in clampCaloriesByCategory(b.food_text, o.calories, effectiveG)}

\* the branch "Sanitize AI calorie output": n is the scaled adapter value
\* when the branch is entered through skipOff, None otherwise
FallbackBranch(b, api, ai, n) ==
    LET raw == IF ai.estimated_calories.kind # "undefined"
               THEN ai.estimated_calories ELSE ai.calories
        sane == sanitizeCalories(raw)
        calories == IF IsSome(sane) THEN Get(sane)
                    ELSE IF raw.kind = "number" THEN raw.v ELSE 0
        gramsOpt == PositiveGrams(b.grams)
        whey == wheyOverride(b.food_text, calories, gramsOpt)
        fat == fatOverride(b.food_text, calories, gramsOpt)
        effectiveG == IF IsSome(gramsOpt) THEN Get(gramsOpt) ELSE 100
        locals(o, c) ==
            [branch |-> "fallback",
             fromCalorieNinjas |-> FALSE,
             skipOff |-> IsSome(n), scaled |-> n,
             calories0 |-> calories, whey |-> whey, fat |-> fat,
             overridden |-> o, clamped |-> c,
             raw |-> raw, sane |-> sane, ai |-> ai]
    IN  IF IsSome(whey)
        THEN {[loc |-> locals(Get(whey).calories, None),
               data |-> [estimated_calories |-> Num(Get(whey).calories),
                         calories |-> ai.calories,
                         confidence_range |-> Confidence(whey, fat, ai.confidence_range),
                         macros |-> Macros(Get(whey))]]}
        ELSE IF IsSome(fat)
        THEN {[loc |-> locals(Get(fat).calories, None),
               data |-> [estimated_calories |-> Num(Get(fat).calories),
                         calories |-> ai.calories,
                         confidence_range |-> Confidence(whey, fat, ai.confidence_range),
                         macros |-> Macros(Get(fat))]]}
        ELSE IF IsSome(sane)
        THEN {[loc |-> locals(calories, Some(clamped)),
               data |-> [ai EXCEPT !.estimated_calories = Num(clamped)]] :
                clamped \in clampCaloriesByCategory(b.food_text, Get(sane), effectiveG)}
        ELSE {[loc |-> locals(calories, None), data |-> ai]}

\* everything POST does after callGroq has returned ai (aiResponse.data)
Reconcile(b, api, ai) ==
    IF b.intent # "food_estimation"
    THEN {[loc |-> [branch |-> "passthrough", fromCalorieNinjas |-> FALSE,
                    skipOff |-> FALSE, scaled |-> None, calories0 |-> 0,
                    whey |-> None, fat |-> None, overridden |-> 0,
                    clamped |-> None, raw |-> Undefined, sane |-> None, ai |-> ai],
           data |-> ai]}
    ELSE IF IsSome(api)
    THEN UNION {IF SkipOff(b.food_text, b.grams, Get(api), n.calories)
                THEN FallbackBranch(b, api, ai, Some(n))
                ELSE ApiBranch(b, Get(api), ai, n) :
                    n \in ScaledNutrition(Get(api), b.grams)}
    ELSE FallbackBranch(b, api, ai, None)

(***************************************************************************)
(* Pure-function harness: Init draws the inputs, an action applies the     *)
(* function to its own previous output (at most MaxApplications times).    *)
(***************************************************************************)
MaxApplications == 2
MaxClampGrams == 3
MaxClampCal == 120

Promise(st, val) == [st |-> st, val |-> val]

IdleServer ==
    /\ pc = "idle"
    /\ body = None
    /\ cn = Promise("idle", None)
    /\ off = Promise("idle", None)
    /\ apiNutrition = None
    /\ groq = None
    /\ loc = None
    /\ resp = None

IdleHarness ==
    /\ fn = "none"
    /\ args = None
    /\ outs = << >>

ClampTexts ==
    {<<W(w)>> : w \in {"eggs", "rice", "dal", "chicken", "roti", "milk", "banana",
                       "potato", "butter", "whey", "vegetable", "fish", "beef",
                       "sugar", "nuts", "curd", "flour", "pizza"}}
    \cup {<<W("butter"), W("chicken")>>, <<W("egg"), W("curry")>>,
          <<W("vegetable"), W("curry")>>, <<W("protein"), W("powder")>>,
          <<NW(2, "eggs")>>, << >>}

ClampGrams == (0..MaxClampGrams) \cup {100}

ClampCalories ==
    (0..MaxClampCal) \cup {200, 275, 300, 1295, 1300, 5000, 5005, 9005, 25000}

InitClamp ==
    /\ IdleServer
    /\ fn = "clampCaloriesByCategory"
    /\ args \in [text : ClampTexts, calories : ClampCalories, grams : ClampGrams]
    /\ outs = << >>

Current == IF outs = << >> THEN args.calories ELSE outs[Len(outs)]

ApplyClamp ==
    /\ fn = "clampCaloriesByCategory"
    /\ Len(outs) < MaxApplications
    /\ \E r \in clampCaloriesByCategory(args.text, Current, args.grams) :
          outs' = Append(outs, r)
    /\ UNCHANGED <<fn, args, serverVars>>

NextClamp == ApplyClamp

SpecClamp == InitClamp /\ [][NextClamp]_vars

\* C1: clampCaloriesByCategory is idempotent: for calories > 0 and grams > 0
\* a second application to the first result returns that result again.
C1_ClampIdempotent ==
    (fn = "clampCaloriesByCategory" /\ args.calories > 0 /\ args.grams > 0
        /\ Len(outs) = 2)
    => outs[2] = outs[1]

\* the first application changed the value and its rounded result lies
\* outside the category range, and the function was applied again
C1_Witness ==
    /\ fn = "clampCaloriesByCategory" /\ args.calories > 0 /\ args.grams > 0
    /\ Len(outs) = 2
    /\ outs[1] # args.calories
    /\ 10 * outs[1] > CategoryRange(args.text).max * args.grams

\* C2 (as claimed): the density of the result, result / grams * 100, lies in
\* the [min, max] of the first matching row (or [30, 500]).
C2_DensityInRange ==
    (fn = "clampCaloriesByCategory" /\ args.calories > 0 /\ args.grams > 0
        /\ Len(outs) >= 1)
    => LET r == CategoryRange(args.text)
       IN  /\ r.min * args.grams <= 10 * outs[1]
           /\ 10 * outs[1] <= r.max * args.grams

\* C2 (amended): the result is a whole number of kcal within half a kcal of
\* a value whose density lies in [min, max]:
\* min * g / 100 - 1/2 <= result <= max * g / 100 + 1/2.
C2_DensityInRangeRounded ==
    (fn = "clampCaloriesByCategory" /\ args.calories > 0 /\ args.grams > 0
        /\ Len(outs) >= 1)
    => LET r == CategoryRange(args.text)
       IN  /\ outs[1] % 10 = 0
           /\ r.min * args.grams - 50 <= 10 * outs[1]
           /\ 10 * outs[1] <= r.max * args.grams + 50

\* a value below the category minimum was raised to the rounded minimum
C2_Witness ==
    /\ fn = "clampCaloriesByCategory" /\ args.grams > 0 /\ Len(outs) >= 1
    /\ args.calories > 0
    /\ 10 * args.calories < CategoryRange(args.text).min * args.grams
    /\ outs[1] > args.calories

(***************************************************************************)
(* sanitizeCalories under the harness                                      *)
(***************************************************************************)
MaxRawWindow == 60

\* numbers (tenths) within MaxRawWindow of the places where sanitizeCalories
\* changes behaviour, and the 570720 J of its comment
RawNumbers ==
    {Num(p + d) : p \in {0, K(MAX_KCAL_PER_SERVING), K(JOULES_PER_KCAL) \div 2,
                         K(JOULES_PER_KCAL), K(JOULE_CEILING), K(570720)},
                  d \in (0 - MaxRawWindow)..MaxRawWindow}

RawStrings ==
    {Str(cs) : cs \in {<<"a", "b", "c">>, <<"-", "5">>, <<"1", "5", "0">>,
                       <<"1", ".", "5">>, <<"1", "2", "0", " ", "k", "c", "a", "l">>,
                       <<"1", ".", "2", ".", "3">>, <<".">>, << >>,
                       <<"3", "0", "0", "-", "4", "0", "0">>}}

RawValues == RawNumbers \cup RawStrings \cup {Infinity, NegInfinity, NaN, Undefined}

InitSanitize ==
    /\ IdleServer
    /\ fn = "sanitizeCalories"
    /\ args \in [raw : RawValues]
    /\ outs = << >>

ApplySanitize ==
    /\ fn = "sanitizeCalories"
    /\ outs = << >>
    /\ outs' = <<sanitizeCalories(args.raw)>>
    /\ UNCHANGED <<fn, args, serverVars>>

NextSanitize == ApplySanitize

SpecSanitize == InitSanitize /\ [][NextSanitize]_vars

\* C5: a value reported in joules is converted: sanitizeCalories(570720)
\* is 136 kcal (570720 / 4184 rounded), within 1.
C5_JoulesConverted ==
    (fn = "sanitizeCalories" /\ args.raw = Num(K(570720)) /\ outs # << >>)
    => outs[1] \in {Some(K(135)), Some(K(136)), Some(K(137))}

\* C6: for a number, sanitizeCalories returns null when it is zero, negative
\* or not finite, and a value when it is finite and positive.
C6_NullIffNotPositive ==
    (fn = "sanitizeCalories" /\ outs # << >>
        /\ args.raw.kind \in {"number", "Infinity", "-Infinity", "NaN"})
    => (outs[1] = None <=> ~(args.raw.kind = "number" /\ args.raw.v > 0))

\* sanitizeCalories(-5) returned null
C6_Witness ==
    /\ fn = "sanitizeCalories"
    /\ args.raw = Num(K(0 - 5))
    /\ outs = <<None>>

(***************************************************************************)
(* capFoodCalories under the harness                                       *)
(***************************************************************************)
MaxCount == 21

\* food texts with one digit run n in front of, or next to, a unit
CountedTexts(n) ==
    { <<N(n), W("eggs")>>,
      <<N(n), W("eggs"), W("roti")>>,
      <<N(n), W("roti")>>,
      <<N(n), W("scoop"), W("whey"), W("protein")>>,
      <<NW(n, "g"), W("butter")>>,
      <<NW(n, "g"), W("oil")>>,
      <<N(n), W("egg"), NW(20, "g"), W("butter")>>,
      <<NW(100, "g"), W("oil"), N(n), W("eggs")>>,
      <<NW(n, "g"), W("butter"), W("roti")>> }

PlainTexts ==
    { <<W("eggs")>>, <<W("roti")>>, <<W("whey")>>, <<W("butter")>>, <<W("rice")>>,
      <<W("pizza")>>, <<W("amul")>>, <<W("olive")>>, <<W("scoops")>>, << >>,
      <<W("butter"), W("chicken")>>, <<W("egg"), W("curry")>>,
      <<N(5), W("grams"), W("ghee")>>, <<NW(300, "g"), W("butter")>>,
      <<NW(300, "g"), W("oil")>>, <<NW(1500, "g"), W("oil")>>,
      <<NW(2, "eggs")>>, <<W("whey"), NW(30, "g"), N(1), W("scoop")>> }

CapTexts == PlainTexts \cup UNION {CountedTexts(n) : n \in 0..MaxCount}

CapCalories ==
    {K(c) : c \in {0, 1, 20, 29, 100, 139, 140, 150, 180, 181, 644, 900, 1000, 2000}}

CapGrams == {None, Some(0), Some(5), Some(30), Some(300)}

InitCap ==
    /\ IdleServer
    /\ fn = "capFoodCalories"
    /\ args \in [text : CapTexts, calories : CapCalories, grams : CapGrams]
    /\ outs = << >>

ApplyCap ==
    /\ fn = "capFoodCalories"
    /\ Len(outs) < MaxApplications
    /\ outs' = Append(outs, capFoodCalories(args.text, Current, args.grams))
    /\ UNCHANGED <<fn, args, serverVars>>

NextCap == ApplyCap

SpecCap == InitCap /\ [][NextCap]_vars

\* C7: for a text that triggers the egg rule with egg count n and no
\* declared grams, the value after the override composition lies in
\* [70 * n, 90 * n], whatever the upstream value.
C7_EggBand ==
    (fn = "capFoodCalories" /\ Len(outs) >= 1
        /\ Matches(args.text, EggWords) /\ args.grams = None)
    => LET n == Quantity(args.text, 20, 1)
       IN  K(70 * n) <= outs[1] /\ outs[1] <= K(90 * n)

\* C8: for a text that triggers the fat/oil rule with known grams g, the
\* value after the override composition is at least round(g * rate * 0.8),
\* rate 9 for oils and 7.2 for butter/ghee, whatever the upstream value.
C8_FatFloor ==
    (fn = "capFoodCalories" /\ Len(outs) >= 1
        /\ Matches(args.text, FatWords)
        /\ IsSome(KnownGrams(args.text, args.grams)))
    => LET g == Get(KnownGrams(args.text, args.grams))
       IN  outs[1] >= K(IF Matches(args.text, OilWords)
                        THEN Round(g * 72, 10) ELSE Round(g * 576, 100))

(***************************************************************************)
(* Source adapters (lib/calorie-ninjas.ts, lib/food-api.ts)                *)
(*                                                                         *)
(* The world an adapter call meets is a record                             *)
(*   key   - CALORIE_NINJAS_API_KEY is configured                          *)
(*   net   - "reject" (fetch rejects), "not_ok" (res.ok false), "ok"       *)
(*   json  - the response body                                             *)
(* The nutrient values of a body are in hundredths; the values an adapter  *)
(* returns are in tenths, as everywhere else.                              *)
(***************************************************************************)
Return(v) == [throws |-> FALSE, val |-> v]
Throw == [throws |-> TRUE, val |-> None]

\* a try block whose catch rethrows
Rethrow(outcomes) == outcomes

\* try { ... } catch { return null; } around the outcomes of the try block
Catch(outcomes) == {IF o.throws THEN Return(None) ELSE o : o \in outcomes}

RECURSIVE SumOf(_, _)
\* items.reduce((s, i) => s + (i[field] ?? 0), 0)
SumOf(items, field) ==
    IF items = << >> THEN 0
    ELSE SumOf(Tail(items), field)
            + (IF Head(items)[field].kind = "number" THEN Head(items)[field].v ELSE 0)

\* the try block of getCalorieNinjasNutrition
CalorieNinjasTry(env) ==
    IF env.net = "reject" THEN {Throw}
    ELSE IF env.net = "not_ok" THEN {Return(None)}
    ELSE IF env.json.kind = "invalid" THEN {Throw}
    ELSE IF env.json.kind = "null" THEN {Throw}
    ELSE IF env.json.list.kind = "missing" THEN {Return(None)}
    ELSE IF env.json.list.kind # "array" THEN {Throw}
    ELSE LET items == SelectSeq(env.json.list.elems,
                          LAMBDA i : i.kind # "null" /\ i.calories.kind = "number")
         IN  IF Len(items) = 0 THEN {Return(None)}
             ELSE {Return(Some([calories |-> c, protein_g |-> p, carbs_g |-> cb,
                                fat_g |-> f, source |-> "calorieninjas",
                                confidence_range |-> PM10])) :
                      c \in RoundInexact(SumOf(items, "calories"), 10),
                      p \in RoundInexact(SumOf(items, "protein_g"), 10),
                      cb \in RoundInexact(SumOf(items, "carbohydrates_total_g"), 10),
                      f \in RoundInexact(SumOf(items, "fat_total_g"), 10)}

getCalorieNinjasNutrition(query, env) ==
    IF ~env.key THEN {Return(None)}
    ELSE IF query = << >> THEN {Return(None)}
    ELSE Catch(CalorieNinjasTry(env))

\* the nutrition of an Open Food Facts product p (per 100 g)
OFFEstimate(p) ==
    LET nut == p.nutriments
        h(x) == IF x.kind = "number" THEN x.v ELSE 0
    IN  {[calories |-> K(Round(h(nut.energy_kcal_100g), 100)),
          protein_g |-> pr, carbs_g |-> cb, fat_g |-> f,
          source |-> "api", confidence_range |-> PM10] :
            pr \in RoundInexact(h(nut.proteins_100g), 10),
            cb \in RoundInexact(h(nut.carbohydrates_100g), 10),
            f \in RoundInexact(h(nut.fat_100g), 10)}

\* p.nutriments?.["energy-kcal_100g"] != null
HasKcal(p) ==
    /\ p.nutriments.kind = "object"
    /\ p.nutriments.energy_kcal_100g.kind # "undefined"

\* the try block of searchNutrition
SearchNutritionTry(env) ==
    IF env.net = "reject" THEN {Throw}
    ELSE IF env.net = "not_ok" THEN {Return(None)}
    ELSE IF env.json.kind = "invalid" THEN {Throw}
    ELSE IF env.json.kind = "null" THEN {Throw}
    ELSE IF env.json.list.kind = "missing" THEN {Return(None)}
    ELSE IF env.json.list.kind # "array" THEN {Throw}
    ELSE LET elems == env.json.list.elems
         IN  IF \E i \in 1..Len(elems) : elems[i].kind = "null" THEN {Throw}
             ELSE LET products == SelectSeq(elems, HasKcal)
                  IN  IF Len(products) = 0 THEN {Return(None)}
                      ELSE {Return(Some(e)) : e \in OFFEstimate(products[1])}

searchNutrition(query, env) == Catch(SearchNutritionTry(env))

\* the try block of getProductByBarcode: json.list holds json.product as
\* its only element, or is missing
ProductByBarcodeTry(env) ==
    IF env.net = "reject" THEN {Throw}
    ELSE IF env.net = "not_ok" THEN {Return(None)}
    ELSE IF env.json.kind = "invalid" THEN {Throw}
    ELSE IF env.json.kind = "null" THEN {Throw}
    ELSE IF env.json.list.kind # "array" THEN {Return(None)}
    ELSE IF Len(env.json.list.elems) = 0 THEN {Return(None)}
    ELSE LET p == env.json.list.elems[1]
         IN  IF p.kind = "null" THEN {Return(None)}
             ELSE IF ~HasKcal(p) THEN {Return(None)}
             ELSE {Return(Some(e)) : e \in OFFEstimate(p)}

getProductByBarcode(barcode, env) == Catch(ProductByBarcodeTry(env))

(***************************************************************************)
(* The adapters applied to every world of a bounded set                    *)
(***************************************************************************)
MaxListLen == 2

NullElem == [kind |-> "null"]
CalorieNinjasItem(c) ==
    [kind |-> "item", calories |-> c, protein_g |-> Num(1262),
     carbohydrates_total_g |-> Num(115), fat_total_g |-> Undefined]
OFFProduct(nut) == [kind |-> "product", nutriments |-> nut]
Nutriments(kcal) ==
    [kind |-> "object", energy_kcal_100g |-> kcal, proteins_100g |-> Num(65),
     carbohydrates_100g |-> Undefined, fat_100g |-> Num(8112)]

CalorieNinjasElems ==
    {NullElem} \cup {CalorieNinjasItem(c) : c \in {Num(2900), Num(15525), NaN, Undefined}}
OFFElems ==
    {NullElem, OFFProduct([kind |-> "missing"])}
    \cup {OFFProduct(Nutriments(k)) : k \in {Num(5250), Num(72000), Undefined}}

SeqsUpTo(S, n) == UNION {[1..k -> S] : k \in 0..n}

JsonBodies(elems, n) ==
    {[kind |-> "invalid"], [kind |-> "null"]}
    \cup {[kind |-> "object", list |-> l] :
            l \in {[kind |-> "missing"], [kind |-> "string"]}
                  \cup {[kind |-> "array", elems |-> es] : es \in SeqsUpTo(elems, n)}}

AdapterQueries == {<< >>, <<W("rice")>>}
NetOutcomes == {"reject", "not_ok", "ok"}

Worlds(elems, n) == [key : BOOLEAN, net : NetOutcomes, json : JsonBodies(elems, n)]

InitAdapter ==
    /\ IdleServer
    /\ outs = << >>
    /\ \/ /\ fn = "getCalorieNinjasNutrition"
          /\ args \in [query : AdapterQueries, env : Worlds(CalorieNinjasElems, MaxListLen)]
       \/ /\ fn = "searchNutrition"
          /\ args \in [query : AdapterQueries, env : Worlds(OFFElems, MaxListLen)]
       \/ /\ fn = "getProductByBarcode"
          /\ args \in [query : AdapterQueries, env : Worlds(OFFElems, 1)]

ApplyCalorieNinjas ==
    /\ fn = "getCalorieNinjasNutrition"
    /\ outs = << >>
    /\ \E o \in getCalorieNinjasNutrition(args.query, args.env) : outs' = <<o>>
    /\ UNCHANGED <<fn, args, serverVars>>

ApplySearchNutrition ==
    /\ fn = "searchNutrition"
    /\ outs = << >>
    /\ \E o \in searchNutrition(args.query, args.env) : outs' = <<o>>
    /\ UNCHANGED <<fn, args, serverVars>>

ApplyProductByBarcode ==
    /\ fn = "getProductByBarcode"
    /\ outs = << >>
    /\ \E o \in getProductByBarcode(args.query, args.env) : outs' = <<o>>
    /\ UNCHANGED <<fn, args, serverVars>>

NextAdapter ==
    \/ ApplyCalorieNinjas
    \/ ApplySearchNutrition
    \/ ApplyProductByBarcode

SpecAdapter == InitAdapter /\ [][NextAdapter]_vars

\* the list of items / products (the product, for a barcode) holds no
\* usable entry
NoValidEntry(f, json) ==
    \/ json.kind # "object"
    \/ json.list.kind # "array"
    \/ LET es == json.list.elems
       IN  IF f = "getCalorieNinjasNutrition"
           THEN \A i \in 1..Len(es) :
                    es[i].kind = "null" \/ es[i].calories.kind # "number"
           ELSE \A i \in 1..Len(es) : es[i].kind = "null" \/ ~HasKcal(es[i])

\* one of the failures an adapter call can meet
AdapterFailure ==
    \/ fn = "getCalorieNinjasNutrition" /\ ~args.env.key
    \/ args.env.net # "ok"
    \/ NoValidEntry(fn, args.env.json)

\* C11: no adapter call throws to its caller, and a call that meets a
\* missing credential, a non-2xx status, a transport error or a list with
\* no valid entry returns null.
C11_AdaptersFailClosed ==
    Len(outs) = 1 =>
        /\ ~outs[1].throws
        /\ AdapterFailure => outs[1].val = None

\* CalorieNinjas was called with a key and the body could not be used
\* (transport error, invalid JSON, or items that is not an array)
C11_Witness ==
    /\ fn = "getCalorieNinjasNutrition"
    /\ Len(outs) = 1
    /\ args.env.key /\ args.query # << >>
    /\ Throw \in CalorieNinjasTry(args.env)
    /\ outs[1] = Return(None)

(***************************************************************************)
(* One request to POST /api/aromi                                          *)
(***************************************************************************)
MaxScoopDigits == 6

ServerTexts ==
    { <<N(2), W("eggs")>>, <<NW(5, "g"), W("butter")>>, <<NW(300, "g"), W("oil")>>,
      <<W("rice")>>, <<W("pizza")>>, <<W("milk")>>, <<W("vegetable")>>,
      <<W("amul")>>, <<W("butter")>>, <<W("whey")>>, <<N(2), W("roti")>>,
      <<W("whey"), NW(30, "g"), N(1), W("scoop")>>, << >> }
    \cup {<<N(n), W("scoop"), W("whey"), W("protein")>> : n \in 0..MaxScoopDigits}

ServerGrams == {None, Some(0), Some(1), Some(30), Some(100), Some(300)}

Bodies ==
    [intent : {"food_estimation"}, food_text : ServerTexts, grams : ServerGrams]
    \cup {[intent |-> "workout_plan", food_text |-> << >>, grams |-> None]}

\* what getCalorieNinjasNutrition resolves to: totals for the query, one decimal
CNResults ==
    {[calories |-> c, protein_g |-> 126, carbs_g |-> 11, fat_g |-> 95,
      source |-> "calorieninjas", confidence_range |-> PM10] :
        c \in {2, K(29), 1553, K(644), K(2500)}}

\* what searchNutrition resolves to: whole kcal and one-decimal macros per 100 g
OFFResults ==
    {[calories |-> K(c), protein_g |-> 7, carbs_g |-> 45, fat_g |-> 811,
      source |-> "api", confidence_range |-> PM10] :
        c \in {1, 25, 60, 720}}

AiMacros == [protein_g |-> K(12), carbs_g |-> K(1), fat_g |-> K(10)]

\* aiResponse.data as the model answered
AiAnswers ==
    {[estimated_calories |-> r, calories |-> Undefined,
      confidence_range |-> "140-180 kcal", macros |-> AiMacros] :
        r \in {Num(K(0 - 5)), Num(0), Num(4), Num(K(29)), Num(K(100)), Num(1505),
               Num(K(644)), Num(K(2050)), Num(K(570720)),
               Str(<<"a", "b", "c">>), Str(<<"1", "5", "0">>), Infinity, Undefined}}
    \cup {[estimated_calories |-> Undefined, calories |-> Num(K(150)),
           confidence_range |-> "140-180 kcal", macros |-> AiMacros]}

GroqFailures == {"GROQ_API_KEY is not set", "Groq API error", "Empty response from Groq",
                 "JSON.parse SyntaxError"}

(***************************************************************************)
(* callGroq (lib/ai.ts).  The content of the model's message is a sequence *)
(* of parts: a code fence, white space, prose, or one JSON document.       *)
(***************************************************************************)
FenceOpen == [t |-> "fence_open"]
FenceClose == [t |-> "fence_close"]
Space == [t |-> "space"]
Prose == [t |-> "prose"]
Json(data) == [t |-> "json", data |-> data]

RECURSIVE TrimStart(_)
TrimStart(c) == IF c # << >> /\ Head(c).t = "space" THEN TrimStart(Tail(c)) ELSE c

RECURSIVE TrimEnd(_)
TrimEnd(c) ==
    IF c # << >> /\ c[Len(c)].t = "space" THEN TrimEnd(SubSeq(c, 1, Len(c) - 1)) ELSE c

\* content.replace(/^```(?:json)?\s*/i, "").replace(/\s*```\s*$/i, "")
StripFence(c) ==
    LET a == IF c # << >> /\ Head(c).t = "fence_open" THEN TrimStart(Tail(c)) ELSE c
        e == TrimEnd(a)
    IN  IF e # << >> /\ e[Len(e)].t = "fence_close"
        THEN TrimEnd(SubSeq(e, 1, Len(e) - 1)) ELSE a

\* JSON.parse(raw): one document, white space around it allowed
JsonParse(raw) ==
    LET r == TrimEnd(TrimStart(raw))
    IN  IF Len(r) = 1 /\ r[1].t = "json"
        THEN [throws |-> FALSE, val |-> Some(r[1].data), error |-> ""]
        ELSE [throws |-> TRUE, val |-> None, error |-> "JSON.parse SyntaxError"]

\* callGroq that answers an empty estimate when the content cannot be used
callGroqLenient(w) ==
    LET r == JsonParse(StripFence(TrimEnd(TrimStart(w.content))))
    IN  IF r.throws \/ ~w.key \/ w.net # "ok"
        THEN [throws |-> FALSE,
              val |-> Some([estimated_calories |-> Undefined, calories |-> Undefined,
                            confidence_range |-> "undefined", macros |-> AiMacros]),
              error |-> ""]
        ELSE r

callGroq(w) ==
    IF ~w.key
    THEN [throws |-> TRUE, val |-> None, error |-> "GROQ_API_KEY is not set"]
    ELSE IF w.net = "reject"
    THEN [throws |-> TRUE, val |-> None, error |-> "fetch failed"]
    ELSE IF w.net = "not_ok"
    THEN [throws |-> TRUE, val |-> None, error |-> "Groq API error"]
    ELSE LET content == TrimEnd(TrimStart(w.content))
         IN  IF content = << >>
             THEN [throws |-> TRUE, val |-> None, error |-> "Empty response from Groq"]
             ELSE JsonParse(StripFence(content))

\* the key, the HTTP exchange and the message content a call can meet
GroqContents ==
    {<< >>, <<Space>>, <<Prose>>, <<Prose, Json(CHOOSE a \in AiAnswers : TRUE)>>,
     <<FenceOpen, Space, Prose, Space, FenceClose>>, <<FenceOpen, FenceClose>>}
    \cup {<<Json(a)>> : a \in AiAnswers}
    \cup {<<Space, FenceOpen, Space, Json(a), Space, FenceClose, Space>> :
            a \in {b \in AiAnswers : b.estimated_calories = Num(K(29))}}

GroqWorlds ==
    {[key |-> FALSE, net |-> "ok", content |-> << >>],
     [key |-> TRUE, net |-> "reject", content |-> << >>],
     [key |-> TRUE, net |-> "not_ok", content |-> <<Prose>>]}
    \cup {[key |-> TRUE, net |-> "ok", content |-> c] : c \in GroqContents}

RETRY_MESSAGE == "Something went wrong. Please try again."

Init ==
    /\ IdleHarness
    /\ IdleServer

\* the worlds the two adapter calls of a request can meet: the failures,
\* and for each result a body that holds it
ItemOfResult(x) ==
    [kind |-> "item", calories |-> Num(x.calories * 10),
     protein_g |-> Num(x.protein_g * 10),
     carbohydrates_total_g |-> Num(x.carbs_g * 10),
     fat_total_g |-> Num(x.fat_g * 10)]

ProductOfResult(x) ==
    OFFProduct([kind |-> "object", energy_kcal_100g |-> Num(x.calories * 10),
                proteins_100g |-> Num(x.protein_g * 10),
                carbohydrates_100g |-> Num(x.carbs_g * 10),
                fat_100g |-> Num(x.fat_g * 10)])

ArrayBody(es) == [kind |-> "object", list |-> [kind |-> "array", elems |-> es]]

FailureWorlds ==
    {[key |-> FALSE, net |-> "ok", json |-> ArrayBody(<< >>)],
     [key |-> TRUE, net |-> "reject", json |-> [kind |-> "invalid"]],
     [key |-> TRUE, net |-> "not_ok", json |-> [kind |-> "invalid"]],
     [key |-> TRUE, net |-> "ok", json |-> [kind |-> "invalid"]],
     [key |-> TRUE, net |-> "ok", json |-> [kind |-> "object", list |-> [kind |-> "string"]]],
     [key |-> TRUE, net |-> "ok", json |-> ArrayBody(<<NullElem>>)]}

CNWorlds ==
    FailureWorlds
    \cup {[key |-> TRUE, net |-> "ok", json |-> ArrayBody(<<ItemOfResult(x)>>)] :
            x \in CNResults}

OFFWorlds ==
    FailureWorlds
    \cup {[key |-> k, net |-> "ok", json |-> ArrayBody(<<ProductOfResult(x)>>)] :
            k \in BOOLEAN, x \in OFFResults}

\* a promise settled with the outcome o of an adapter call
Settled(o) == IF o.throws THEN Promise("rejected", None) ELSE Promise("settled", o.val)

\* req.json(), then the first adapter call awaited alone
RequestSequential ==
    /\ pc = "idle"
    /\ \E b \in Bodies :
          /\ body' = Some(b)
          /\ IF b.intent = "food_estimation" /\ b.food_text # << >>
             THEN /\ pc' = "fetch"
                  /\ cn' = Promise("pending", None)
                  /\ UNCHANGED off
             ELSE /\ pc' = "groq"
                  /\ UNCHANGED <<cn, off>>
    /\ UNCHANGED <<apiNutrition, groq, loc, resp, harnessVars>>

\* req.json(); Promise.all starts both adapter calls at once
Request ==
    /\ pc = "idle"
    /\ \E b \in Bodies :
          /\ body' = Some(b)
          /\ IF b.intent = "food_estimation" /\ b.food_text # << >>
             THEN /\ pc' = "fetch"
                  /\ cn' = Promise("pending", None)
                  /\ off' = Promise("pending", None)
             ELSE /\ pc' = "groq"
                  /\ UNCHANGED <<cn, off>>
    /\ UNCHANGED <<apiNutrition, groq, loc, resp, harnessVars>>

CNSettle ==
    /\ pc = "fetch"
    /\ cn.st = "pending"
    /\ \E w \in CNWorlds : \E o \in getCalorieNinjasNutrition(Get(body).food_text, w) :
          cn' = Settled(o)
    /\ UNCHANGED <<pc, body, off, apiNutrition, groq, loc, resp, harnessVars>>

OFFSettle ==
    /\ pc = "fetch"
    /\ off.st = "pending"
    /\ \E w \in OFFWorlds : \E o \in searchNutrition(Get(body).food_text, w) :
          off' = Settled(o)
    /\ UNCHANGED <<pc, body, cn, apiNutrition, groq, loc, resp, harnessVars>>

\* the continuation of await Promise.all: source selection, then callGroq;
\* a rejected promise rejects Promise.all and the catch answers 500
AwaitAll ==
    /\ pc = "fetch"
    /\ \/ cn.st = "rejected"
       \/ off.st = "rejected"
       \/ cn.st = "settled" /\ off.st = "settled"
    /\ IF cn.st = "rejected" \/ off.st = "rejected"
       THEN /\ pc' = "done"
            /\ resp' = Some([status |-> 500,
                             data |-> [estimated_calories |-> Undefined,
                                       calories |-> Undefined,
                                       confidence_range |-> "undefined",
                                       macros |-> AiMacros],
                             message |-> RETRY_MESSAGE,
                             error |-> "adapter error"])
            /\ UNCHANGED apiNutrition
       ELSE /\ apiNutrition' = IF IsSome(cn.val) THEN cn.val
                               ELSE IF IsSome(off.val) THEN off.val ELSE None
            /\ pc' = "groq"
            /\ UNCHANGED resp
    /\ UNCHANGED <<body, cn, off, groq, loc, harnessVars>>

GroqReturns ==
    /\ pc = "groq"
    /\ \E w \in GroqWorlds :
          LET o == callGroq(w)
          IN  /\ ~o.throws
              /\ groq' = Some(w)
              /\ \E r \in Reconcile(Get(body), apiNutrition, Get(o.val)) :
                    /\ loc' = Some(r.loc)
                    /\ resp' = Some([status |-> 200, data |-> r.data,
                                     message |-> "aiResponse.message", error |-> ""])
    /\ pc' = "done"
    /\ UNCHANGED <<body, cn, off, apiNutrition, harnessVars>>

\* callGroq throws; the catch answers 500
GroqThrows ==
    /\ pc = "groq"
    /\ \E w \in GroqWorlds :
          LET o == callGroq(w)
          IN  /\ o.throws
              /\ groq' = Some(w)
              /\ resp' = Some([status |-> 500,
                               data |-> [estimated_calories |-> Undefined,
                                         calories |-> Undefined,
                                         confidence_range |-> "undefined",
                                         macros |-> AiMacros],
                               message |-> RETRY_MESSAGE,
                               error |-> o.error])
    /\ pc' = "done"
    /\ UNCHANGED <<body, cn, off, apiNutrition, loc, harnessVars>>

Next ==
    \/ Request
    \/ CNSettle
    \/ OFFSettle
    \/ AwaitAll
    \/ GroqReturns
    \/ GroqThrows

Spec == Init /\ [][Next]_vars

\* a food_estimation request was answered with an estimate
Estimated ==
    /\ pc = "done"
    /\ Get(resp).status = 200
    /\ Get(body).intent = "food_estimation"

EstimatedCalories == Get(resp).data.estimated_calories

\* the raw calorie value of the source the response was computed from: the
\* adapter's calories on the API branch, the model's on the fallback branch
UsedRawPositive ==
    LET l == Get(loc)
    IN  \/ l.branch = "api" /\ Get(apiNutrition).calories > 0
        \/ l.branch = "fallback" /\ l.raw.kind = "number" /\ l.raw.v > 0

\* C3: whenever the source used for a food_estimation response reported a
\* positive raw calorie value, the returned estimated_calories is a number
\* > 0 and <= 2000, on every path and whichever override fired.
C3_PositiveWithinCeiling ==
    (Estimated /\ UsedRawPositive) =>
        /\ EstimatedCalories.kind = "number"
        /\ EstimatedCalories.v > 0
        /\ EstimatedCalories.v <= K(MAX_KCAL_PER_SERVING)

\* C4: the estimated_calories of every food_estimation response is a finite,
\* non-negative whole number, whatever the raw value was.
C4_FiniteNonNegativeInteger ==
    Estimated =>
        /\ EstimatedCalories.kind = "number"
        /\ EstimatedCalories.v >= 0
        /\ EstimatedCalories.v % 10 = 0

\* C9: when wheyOverride fired for s scoops (the value entering it was below
\* 70 * s), the response carries exactly 120 * s kcal, 24 * s g protein,
\* 2 * s g carbs, 1.5 * s g fat and the "(typical scoop)" confidence, on the
\* API branch and on the fallback branch.
C9_WheyReplaceExact ==
    (Estimated /\ IsSome(Get(loc).whey)) =>
        LET s == Quantity(Get(body).food_text, 5, 1)
            d == Get(resp).data
        IN  /\ Get(loc).calories0 < K(70 * s)
            /\ d.estimated_calories = Num(K(120 * s))
            /\ d.macros = [protein_g |-> K(24 * s), carbs_g |-> K(2 * s),
                           fat_g |-> 15 * s]
            /\ d.confidence_range = PM10_SCOOP

\* C10: when both adapters returned data, the CalorieNinjas result is the
\* one selected, and the calories and macros entering the override step are
\* its values, not multiplied by grams / 100, whatever body.grams is.
C10_SourcePrecedence ==
    (pc \in {"groq", "done"} /\ IsSome(cn.val) /\ IsSome(off.val)) =>
        /\ apiNutrition = cn.val
        /\ Get(apiNutrition).source = "calorieninjas"
        /\ (pc = "done" /\ Get(resp).status = 200) =>
              /\ Get(loc).branch = "api"
              /\ Get(loc).fromCalorieNinjas
              /\ Get(loc).scaled =
                    Some([calories |-> Get(cn.val).calories,
                          protein_g |-> Get(cn.val).protein_g,
                          carbs_g |-> Get(cn.val).carbs_g,
                          fat_g |-> Get(cn.val).fat_g])

\* both adapters returned data, 300 g were declared, and the response left
C10_Witness ==
    /\ Estimated
    /\ IsSome(cn.val) /\ IsSome(off.val)
    /\ Get(body).grams = Some(300)
    /\ Get(loc).branch = "api"
    /\ Get(off.val).calories # Get(cn.val).calories

\* body.grams != null && body.grams > 0 ? body.grams : 100
EffectiveG(b) == IF IsSome(PositiveGrams(b.grams)) THEN Get(b.grams) ELSE 100

\* C12: in each source case the returned calories are the override's
\* result, passed through clampCaloriesByCategory and then capped at 2000.
C12_OverrideClampCap ==
    (Estimated /\ (Get(loc).branch = "api" \/ IsSome(Get(loc).sane)
                    \/ IsSome(Get(loc).whey) \/ IsSome(Get(loc).fat))) =>
        \E c \in clampCaloriesByCategory(Get(body).food_text, Get(loc).overridden,
                                         EffectiveG(Get(body))) :
            EstimatedCalories = Num(Min2(c, K(MAX_KCAL_PER_SERVING)))

\* the parts of a content that are neither white space nor a code fence
Meaningful(c) == SelectSeq(c, LAMBDA p : p.t \notin {"space", "fence_open", "fence_close"})

\* the model answered, and its content is empty or is not one JSON document
FallbackFailure ==
    /\ IsSome(groq)
    /\ Get(groq).key /\ Get(groq).net = "ok"
    /\ \/ Meaningful(Get(groq).content) = << >>
       \/ Len(Meaningful(Get(groq).content)) > 1
       \/ Meaningful(Get(groq).content)[1].t # "json"

\* C13: when the model's content is empty or cannot be parsed as JSON after
\* the code fence is stripped, the request is answered with status 500 and
\* the generic retry message, and carries no estimate.
C13_FallbackFailureIs500 ==
    (pc = "done" /\ FallbackFailure) =>
        /\ Get(resp).status = 500
        /\ Get(resp).message = RETRY_MESSAGE
        /\ Get(resp).data.estimated_calories = Undefined
        /\ loc = None

\* a food request whose model answer was fenced prose has been answered
C13_Witness ==
    /\ pc = "done"
    /\ FallbackFailure
    /\ Get(groq).content = <<FenceOpen, Space, Prose, Space, FenceClose>>
    /\ Get(body).intent = "food_estimation"
    /\ Get(resp).status = 500

\* C14: the two adapter calls of a request are in flight together (neither
\* is started only after the other has resolved), no adapter call rejects,
\* and a call that resolved to no data leaves the other call's data in use.
C14_AdaptersConcurrent ==
    /\ (cn.st = "idle") <=> (off.st = "idle")
    /\ cn.st # "rejected" /\ off.st # "rejected"
    /\ (pc \in {"groq", "done"} /\ cn.st = "settled" /\ off.st = "settled") =>
          /\ (cn.val = None /\ IsSome(off.val)) => apiNutrition = off.val
          /\ (off.val = None /\ IsSome(cn.val)) => apiNutrition = cn.val
    /\ (Estimated /\ cn.st = "settled" /\ (IsSome(cn.val) \/ IsSome(off.val))) =>
          Get(loc).scaled # None

\* the CalorieNinjas call gave no data and the estimate was computed from
\* the Open Food Facts data
C14_Witness ==
    /\ Estimated
    /\ cn.st = "settled" /\ cn.val = None
    /\ IsSome(off.val)
    /\ Get(loc).branch = "api"
    /\ ~Get(loc).fromCalorieNinjas

\* C15: the confidence string is "+/-10%", possibly annotated, when the
\* estimate is taken from an adapter's data, and the model's own stated
\* range when only the model fallback was used.
C15_ConfidenceBySource ==
    Estimated =>
        LET c == Get(resp).data.confidence_range
        IN  IF Get(loc).branch = "api"
            THEN c \in {PM10, PM10_SCOOP, PM10_TYPICAL}
            ELSE c = Get(loc).ai.confidence_range

\* C15, amended: on the API branch the string is "+/-10%", annotated
\* "(typical scoop)" or "(typical)" exactly when the whey or the fat
\* override fired; on the fallback branch it is the same annotated string
\* when an override fired and the model's own stated range otherwise.
C15_ConfidenceBySourceAndOverride ==
    Estimated =>
        LET c == Get(resp).data.confidence_range
            l == Get(loc)
        IN  IF IsSome(l.whey) THEN c = PM10_SCOOP
            ELSE IF IsSome(l.fat) THEN c = PM10_TYPICAL
            ELSE IF l.branch = "api" THEN c = PM10
            ELSE c = l.ai.confidence_range

\* only the model fallback was used and the fat override replaced its value
C15_Witness ==
    /\ Estimated
    /\ apiNutrition = None
    /\ Get(loc).branch = "fallback"
    /\ IsSome(Get(loc).fat)
    /\ Get(resp).data.confidence_range = PM10_TYPICAL

\* C16: for a text that triggers both the egg rule (count n) and the
\* flatbread rule, the result of capFoodCalories is at least 70 * n: the
\* flatbread cap does not undo the egg floor.
C16_BreadCapKeepsEggFloor ==
    (fn = "capFoodCalories" /\ Len(outs) >= 1
        /\ Matches(args.text, EggWords) /\ Matches(args.text, BreadWords))
    => outs[1] >= K(70 * Quantity(args.text, 20, 1))

\* C17: for a text with an egg keyword and a fat keyword, egg count n and
\* known fat grams g, the result of capFoodCalories is at least
\* n * 70 + round(g * 7 * 0.8).
C17_CombinedFloorKept ==
    (fn = "capFoodCalories" /\ Len(outs) >= 1
        /\ Matches(args.text, EggWords) /\ Matches(args.text, FatWords)
        /\ IsSome(KnownGrams(args.text, args.grams)))
    => LET n == Quantity(args.text, 20, 1)
           g == Get(KnownGrams(args.text, args.grams))
       IN  outs[1] >= K(n * 70 + Round(g * 56, 10))

(***************************************************************************)
(* The override functions of client and server applied to the same inputs  *)
(***************************************************************************)
EngineTexts ==
    PlainTexts \cup UNION {CountedTexts(n) : n \in 0..MaxCount}
    \cup { <<N(2), W("bananas")>>, <<NW(100, "g"), W("rice")>>, <<W("eggplant")>>,
           <<N(3), W("scoops"), W("icecream")>>, <<NW(250, "g"), W("chicken"), W("curry")>>,
           <<W("mustard")>>, <<W("protein"), W("bar")>>, <<N(5), W("grams"), W("dal")>> }

InitEngine ==
    /\ IdleServer
    /\ fn \in {"capFoodCalories", "wheyOverride", "fatOverride"}
    /\ args \in [text : EngineTexts, calories : CapCalories, grams : CapGrams]
    /\ outs = << >>

ApplyWheyOverride ==
    /\ fn = "wheyOverride"
    /\ outs = << >>
    /\ outs' = <<wheyOverride(args.text, args.calories, PositiveGrams(args.grams))>>
    /\ UNCHANGED <<fn, args, serverVars>>

ApplyFatOverride ==
    /\ fn = "fatOverride"
    /\ outs = << >>
    /\ outs' = <<fatOverride(args.text, args.calories, PositiveGrams(args.grams))>>
    /\ UNCHANGED <<fn, args, serverVars>>

NextEngine ==
    \/ ApplyCap
    \/ ApplyWheyOverride
    \/ ApplyFatOverride

SpecEngine == InitEngine /\ [][NextEngine]_vars

\* the text matches none of the keywords of any override rule
NoTrigger(text) ==
    ~Matches(text, BreadWords \cup EggWords \cup WheyWords \cup FatWords
                   \cup ButterWords \cup ServerOilWords)

\* C18: for a text that matches no override trigger, capFoodCalories
\* returns its input calories and wheyOverride and fatOverride return null,
\* for every calories and grams.
C18_NoTriggerUnchanged ==
    NoTrigger(args.text) =>
        \A i \in 1..Len(outs) :
            IF fn = "capFoodCalories" THEN outs[i] = args.calories
            ELSE outs[i] = None

\* fatOverride was applied to a keyword-free text with known grams and a
\* value below half of what a fat of that weight would have
C18_Witness ==
    /\ fn = "fatOverride"
    /\ Len(outs) = 1
    /\ NoTrigger(args.text) /\ args.text # << >>
    /\ IsSome(KnownGrams(args.text, args.grams))
    /\ 2 * args.calories < K(Get(KnownGrams(args.text, args.grams)) * 7)
    /\ outs[1] = None

C20_ResultInOneTo2000 ==
    (fn = "sanitizeCalories" /\ Len(outs) = 1 /\ outs[1] # None) =>
        /\ Get(outs[1]) % 10 = 0
        /\ Get(outs[1]) >= K(1)
        /\ Get(outs[1]) <= K(MAX_KCAL_PER_SERVING)

RECURSIVE EarliestRow(_, _)
\* the index of the earliest row from i on whose pattern matches text, 0 if none
EarliestRow(text, i) ==
    IF i > Len(CATEGORY_KCAL_PER_100G) THEN 0
    ELSE IF Matches(text, CATEGORY_KCAL_PER_100G[i].pattern) THEN i
    ELSE EarliestRow(text, i + 1)

\* C21: clampCaloriesByCategory clamps with the [min, max] of the earliest
\* matching row only, and with [30, 500] exactly when no row matches.
C21_FirstMatchWins ==
    (fn = "clampCaloriesByCategory" /\ Len(outs) >= 1 /\ args.calories > 0) =>
        LET i == EarliestRow(args.text, 1)
            lo == IF i = 0 THEN 30 ELSE CATEGORY_KCAL_PER_100G[i].min
            hi == IF i = 0 THEN 500 ELSE CATEGORY_KCAL_PER_100G[i].max
            g == IF args.grams > 0 THEN args.grams ELSE 100
        IN  /\ 10 * args.calories <= lo * g => outs[1] = K(Round(lo * g, 100))
            /\ 10 * args.calories > hi * g => outs[1] = K(Round(hi * g, 100))
            /\ (10 * args.calories > lo * g /\ 10 * args.calories <= hi * g) =>
                  outs[1] \in {K(x) : x \in RoundInexact(args.calories, 10)}

\* "butter chicken" (rows chicken and butter both match) was clamped up to
\* the minimum of the chicken row
C21_Witness ==
    /\ fn = "clampCaloriesByCategory" /\ Len(outs) >= 1
    /\ args.text = <<W("butter"), W("chicken")>>
    /\ args.grams = 100 /\ args.calories = K(5)
    /\ outs[1] = K(120)

\* v is p / q rounded to a whole number, either way at a tie
Nearest(v, p, q) == 2 * (p - v * q) <= q /\ 2 * (v * q - p) <= q

\* C22: when only searchNutrition returned data, the calories and macros
\* entering the override step are the per-100 g values times grams / 100
\* (grams = 100 when body.grams is not positive), the calories rounded to a
\* whole number and the macros to one decimal.
C22_ProductDataScaled ==
    (Estimated /\ cn.st = "settled" /\ cn.val = None /\ IsSome(off.val)) =>
        LET per100 == Get(off.val)
            b == Get(body)
            grams == IF IsSome(b.grams) /\ Get(b.grams) > 0 THEN Get(b.grams) ELSE 100
        IN  /\ IsSome(Get(loc).scaled)
            /\ LET n == Get(Get(loc).scaled)
               IN  /\ n.calories % 10 = 0
                   /\ Nearest(n.calories \div 10, per100.calories * grams, 1000)
                   /\ Nearest(n.protein_g, per100.protein_g * grams, 100)
                   /\ Nearest(n.carbs_g, per100.carbs_g * grams, 100)
                   /\ Nearest(n.fat_g, per100.fat_g * grams, 100)

\* only Open Food Facts returned data and 30 g were declared
C22_Witness ==
    /\ Estimated
    /\ cn.st = "settled" /\ cn.val = None /\ IsSome(off.val)
    /\ Get(body).grams = Some(30)
    /\ Get(loc).branch = "api"
    /\ Get(Get(loc).scaled).calories # Get(off.val).calories

\* the text holds no digit run
NoDigits(text) == \A i \in 1..Len(text) : text[i].num = None

\* the quantities a rule with maximum max and default d can use for text
Quantities(text, max, d) == IF NoDigits(text) THEN {d} ELSE 1..max

\* C23: the quantity a rule multiplies by is a whole number in 1..max
\* (5 scoops, 20 eggs, 10 flatbread pieces) whatever digits the text holds,
\* and 1 (scoops, eggs) or 2 (pieces) when it holds none; stated on the
\* result of each rule for texts that trigger that rule alone.
C23_QuantityInRange ==
    Len(outs) >= 1 =>
        LET t == args.text
            c == args.calories
            eggOnly == Matches(t, EggWords)
                         /\ ~Matches(t, BreadWords \cup WheyWords \cup FatWords)
            breadOnly == Matches(t, BreadWords)
                         /\ ~Matches(t, EggWords \cup WheyWords \cup FatWords)
            wheyOnly == Matches(t, WheyWords)
                         /\ ~Matches(t, EggWords \cup BreadWords \cup FatWords)
        IN  /\ (fn = "capFoodCalories" /\ eggOnly) =>
                  \E q \in Quantities(t, 20, 1) :
                      outs[1] = Min2(Max2(c, K(70 * q)), K(90 * q))
            /\ (fn = "capFoodCalories" /\ breadOnly) =>
                  \E q \in Quantities(t, 10, 2) : outs[1] = Min2(c, K(90 * q))
            /\ (fn = "capFoodCalories" /\ wheyOnly) =>
                  \E q \in Quantities(t, 5, 1) : outs[1] = Max2(c, K(100 * q))
            /\ (fn = "wheyOverride" /\ outs[1] # None) =>
                  \E q \in Quantities(t, 5, 1) :
                      /\ Get(outs[1]).calories = K(120 * q)
                      /\ c < K(70 * q)

\* wheyOverride fired for a text that says 0 scoops, with the values of one scoop
C23_Witness ==
    /\ fn = "wheyOverride" /\ Len(outs) = 1
    /\ args.text = <<N(0), W("scoop"), W("whey"), W("protein")>>
    /\ outs[1] # None
    /\ Get(outs[1]).calories = K(120)

\* the digit runs of text that stand next to one of the unit words
AdjacentRuns(text, units) ==
    {i \in 1..Len(text) :
        /\ text[i].num # None
        /\ \/ text[i].word \in units
           \/ text[i].word = "" /\ i < Len(text) /\ text[i + 1].num = None
                /\ text[i + 1].word \in units}

\* C24: when the text holds a digit run next to a rule's unit word, that
\* run is the rule's quantity: the scoops of wheyOverride are the number
\* next to scoop, and the egg cap of capFoodCalories uses the number next
\* to egg, not an earlier run that belongs to another unit.
C24_QuantityNextToUnit ==
    Len(outs) >= 1 =>
        /\ (fn = "wheyOverride" /\ outs[1] # None) =>
              \A i \in AdjacentRuns(args.text, {"scoop", "schoop", "scoops"}) :
                  Get(outs[1]).calories = K(120 * Min2(5, Max2(1, Get(args.text[i].num))))
        /\ (fn = "capFoodCalories" /\ Matches(args.text, EggWords)) =>
              \A i \in AdjacentRuns(args.text, {"egg", "eggs"}) :
                  outs[1] <= K(90 * Min2(20, Max2(1, Get(args.text[i].num))))

\* C25: capFoodCalories applied to its own result, with the same text and
\* grams, returns that result again.
C25_CapFoodIdempotent ==
    (fn = "capFoodCalories" /\ Len(outs) = 2) => outs[2] = outs[1]

\* a value that the first application changed, for a text with eggs and
\* flatbread, went through a second application
C25_Witness ==
    /\ fn = "capFoodCalories" /\ Len(outs) = 2
    /\ Matches(args.text, EggWords) /\ Matches(args.text, BreadWords)
    /\ outs[1] # args.calories
    /\ outs[1] < K(70 * Quantity(args.text, 20, 1))

(***************************************************************************)
(* The sanitizeCalories of app/page.tsx and of app/dashboard/page.tsx,     *)
(* which take a number                                                     *)
(***************************************************************************)
\* the client sanitizer with the cap tested before the joule range
sanitizeCaloriesCapFirst(raw) ==
    IF (raw.kind = "number" /\ raw.v <= 0) \/ raw.kind # "number" THEN None
    ELSE IF raw.v > K(MAX_KCAL_PER_SERVING) THEN Some(K(MAX_KCAL_PER_SERVING))
    ELSE Some(K(Round(raw.v, 10)))

\* app/page.tsx
sanitizeCaloriesPage(raw) ==
    IF (raw.kind = "number" /\ raw.v <= 0) \/ raw.kind = "-Infinity"
          \/ raw.kind # "number"
    THEN None
    ELSE IF raw.v > K(MAX_KCAL_PER_SERVING) /\ raw.v < K(JOULE_CEILING)
    THEN LET asKcal == Round(raw.v, K(JOULES_PER_KCAL))
         IN  IF asKcal <= MAX_KCAL_PER_SERVING
             THEN Some(K(asKcal)) ELSE Some(K(MAX_KCAL_PER_SERVING))
    ELSE IF raw.v > K(MAX_KCAL_PER_SERVING) THEN Some(K(MAX_KCAL_PER_SERVING))
    ELSE Some(K(Round(raw.v, 10)))

\* app/dashboard/page.tsx
sanitizeCaloriesDashboard(raw) ==
    IF (raw.kind = "number" /\ raw.v <= 0) \/ raw.kind = "-Infinity"
          \/ raw.kind # "number"
    THEN None
    ELSE IF raw.v > K(MAX_KCAL_PER_SERVING) /\ raw.v < K(JOULE_CEILING)
    THEN LET asKcal == Round(raw.v, K(JOULES_PER_KCAL))
         IN  IF asKcal <= MAX_KCAL_PER_SERVING
             THEN Some(K(asKcal)) ELSE Some(K(MAX_KCAL_PER_SERVING))
    ELSE IF raw.v > K(MAX_KCAL_PER_SERVING) THEN Some(K(MAX_KCAL_PER_SERVING))
    ELSE Some(K(Round(raw.v, 10)))

\* the three sanitizers applied to the same number, in the order route,
\* page, dashboard
InitSanitizers ==
    /\ IdleServer
    /\ fn = "sanitizers"
    /\ args \in [raw : RawNumbers \cup {Infinity, NegInfinity, NaN}]
    /\ outs = << >>

ApplyRouteSanitizer ==
    /\ fn = "sanitizers"
    /\ Len(outs) = 0
    /\ outs' = Append(outs, sanitizeCalories(args.raw))
    /\ UNCHANGED <<fn, args, serverVars>>

ApplyPageSanitizer ==
    /\ fn = "sanitizers"
    /\ Len(outs) = 1
    /\ outs' = Append(outs, sanitizeCaloriesPage(args.raw))
    /\ UNCHANGED <<fn, args, serverVars>>

ApplyDashboardSanitizer ==
    /\ fn = "sanitizers"
    /\ Len(outs) = 2
    /\ outs' = Append(outs, sanitizeCaloriesDashboard(args.raw))
    /\ UNCHANGED <<fn, args, serverVars>>

NextSanitizers ==
    \/ ApplyRouteSanitizer
    \/ ApplyPageSanitizer
    \/ ApplyDashboardSanitizer

SpecSanitizers == InitSanitizers /\ [][NextSanitizers]_vars

\* C26: for every number, the sanitizeCalories of the API route, of
\* app/page.tsx and of app/dashboard/page.tsx return the same result.
C26_SanitizersAgree ==
    (fn = "sanitizers" /\ Len(outs) = 3) => (outs[1] = outs[2] /\ outs[2] = outs[3])

\* the three were applied to a number of the joule range and converted it
C26_Witness ==
    /\ fn = "sanitizers" /\ Len(outs) = 3
    /\ args.raw.kind = "number"
    /\ args.raw.v > K(JOULES_PER_KCAL) /\ args.raw.v < K(JOULE_CEILING)
    /\ outs[3] = Some(K(1))

(***************************************************************************)
(* The log page of the client (app/page.tsx): state input, grams,          *)
(* loading, lastResponse, pendingLog and the food log                      *)
(***************************************************************************)
MaxLogEntries == 2

\* extractEstimatedCalories(data) for a response whose data carries at most
\* the key estimated_calories, a finite number: tryNumber returns the
\* number, which goes through sanitizeCalories
extractEstimatedCalories(data) ==
    IF data = None THEN None
    ELSE IF Get(data).estimated_calories = None THEN None
    ELSE sanitizeCaloriesPage(Get(Get(data).estimated_calories))

\* displayCalories of the render: computed from the current lastResponse,
\* input and grams, under Math.min(MAX_KCAL_PER_SERVING, ...)
displayCalories(ui) ==
    LET d == IF ui.lastResponse = None THEN None
             ELSE Some(Get(ui.lastResponse).data)
        estimatedCaloriesValue == extractEstimatedCalories(d)
    IN  IF estimatedCaloriesValue = None THEN None
        ELSE Some(Min2(K(MAX_KCAL_PER_SERVING),
                       capFoodCalories(ui.input, Get(estimatedCaloriesValue), ui.grams)))

\* showConfirm = hasCalories && pendingLog
showConfirm(ui) == displayCalories(ui) # None /\ ui.pendingLog # None

\* what the user can type in the food field and in the grams field
ClientTexts ==
    { <<W("rice")>>, <<N(2), W("eggs")>>, <<NW(300, "g"), W("oil")>>,
      <<N(3), W("roti")>>, << >> }

ClientGrams == {None, Some(30), Some(300)}

\* responses of /api/aromi: a message and data
ResponseData ==
    { [estimated_calories |-> c] :
        c \in {None, Some(Num(K(100))), Some(Num(K(644))), Some(Num(K(2000)))} }

Responses == [message : {"reply"}, data : ResponseData]

CONNECTION_MESSAGE == "Something went wrong. Check your connection and try again."

InitClient ==
    /\ IdleServer
    /\ fn = "client"
    /\ args = [input |-> << >>, grams |-> None, loading |-> None,
               lastResponse |-> None, pendingLog |-> None]
    /\ outs = << >>

\* onChange of the food field: setInput(e.target.value)
SetInput ==
    /\ fn = "client"
    /\ \E text \in ClientTexts :
          /\ text # args.input
          /\ args' = [args EXCEPT !.input = text]
    /\ UNCHANGED <<fn, outs, serverVars>>

\* onChange of the grams field: setGrams(e.target.value)
SetGrams ==
    /\ fn = "client"
    /\ \E g \in ClientGrams :
          /\ g # args.grams
          /\ args' = [args EXCEPT !.grams = g]
    /\ UNCHANGED <<fn, outs, serverVars>>

\* input.trim() && send("food_estimation"), up to the await of fetch: the
\* callback holds the input and the grams of the render it was created in
Send ==
    /\ fn = "client"
    /\ args.loading = None
    /\ args.input # << >>
    /\ args' = [args EXCEPT !.loading = Some([input |-> args.input, grams |-> args.grams]),
                            !.lastResponse = None,
                            !.pendingLog = None]
    /\ UNCHANGED <<fn, outs, serverVars>>

\* send after the await: setLastResponse(data), then the pending entry from
\* capFoodCalories(input, cal, gramsNum) with the values held by the callback
Receive ==
    /\ fn = "client"
    /\ args.loading # None
    /\ \E data \in Responses :
          LET sent == Get(args.loading)
              cal == extractEstimatedCalories(Some(data.data))
          IN  args' = [args EXCEPT
                  !.loading = None,
                  !.lastResponse = Some(data),
                  !.pendingLog =
                      IF cal = None THEN args.pendingLog
                      ELSE Some([food_text |-> sent.input,
                                 estimated_calories |->
                                     capFoodCalories(sent.input, Get(cal), sent.grams),
                                 grams |-> sent.grams])]
    /\ UNCHANGED <<fn, outs, serverVars>>

\* the catch of send: a response with a message and empty data
ReceiveFails ==
    /\ fn = "client"
    /\ args.loading # None
    /\ args' = [args EXCEPT !.loading = None,
                            !.lastResponse =
                                Some([message |-> CONNECTION_MESSAGE,
                                      data |-> [estimated_calories |-> None]])]
    /\ UNCHANGED <<fn, outs, serverVars>>

\* handleConfirmLog behind the button shown when showConfirm
HandleConfirmLog ==
    /\ fn = "client"
    /\ showConfirm(args)
    /\ Len(outs) < MaxLogEntries
    /\ outs' = Append(outs, [food_text |-> Get(args.pendingLog).food_text,
                             estimated_calories |->
                                 Get(args.pendingLog).estimated_calories])
    /\ args' = [args EXCEPT !.pendingLog = None, !.lastResponse = None,
                            !.input = << >>, !.grams = None]
    /\ UNCHANGED <<fn, serverVars>>

NextClient ==
    \/ SetInput
    \/ SetGrams
    \/ Send
    \/ Receive
    \/ ReceiveFails
    \/ HandleConfirmLog

SpecClient == InitClient /\ [][NextClient]_vars

\* C27: whatever the user did before, the estimated_calories of the entry
\* that a confirmation adds to the log is the calorie value displayed for
\* the estimate at the moment of the confirmation.
C27_PersistedAsRendered ==
    [][(fn = "client" /\ Len(outs') = Len(outs) + 1)
          => outs'[Len(outs')].estimated_calories = Get(displayCalories(args))]_vars

\* the same, for a confirmation that directly follows the response, the
\* fields untouched since the request was sent
C27_PersistedAsRenderedUnedited ==
    [][(/\ fn = "client" /\ Len(outs') = Len(outs) + 1
        /\ args.input = Get(args.pendingLog).food_text
        /\ args.grams = Get(args.pendingLog).grams)
          => outs'[Len(outs')].estimated_calories = Get(displayCalories(args))]_vars

\* the same again, for values that stay under the serving maximum
C27_PersistedAsRenderedBelowMax ==
    [][(/\ fn = "client" /\ Len(outs') = Len(outs) + 1
        /\ args.input = Get(args.pendingLog).food_text
        /\ args.grams = Get(args.pendingLog).grams
        /\ Get(args.pendingLog).estimated_calories <= K(MAX_KCAL_PER_SERVING))
          => outs'[Len(outs')].estimated_calories = Get(displayCalories(args))]_vars

\* C28: a food_estimation request for which an external adapter returned
\* data is answered with an estimate and not with an error, whatever
\* happens to the call of the model.
C28_AdapterDataMeansEstimate ==
    (pc = "done" /\ Get(body).intent = "food_estimation" /\ IsSome(apiNutrition))
        => Get(resp).status = 200

\* the second half of C28: a failing call of the model is an error for the
\* request only when no data source succeeded
C28_FallbackErrorOnlyWithoutData ==
    (/\ pc = "done" /\ Get(body).intent = "food_estimation"
     /\ IsSome(groq) /\ callGroq(Get(groq)).throws
     /\ Get(resp).status = 500)
        => apiNutrition = None

\* the three fields of a response that C29 is about
EstimateFields(data) ==
    <<data.estimated_calories, data.macros, data.confidence_range>>

Discarded(b, api, scaledCalories) ==
    LET declared == IsSome(b.grams) /\ Get(b.grams) > 0
        parsed == parseGramsFromFoodText(b.food_text)
    IN  /\ api.source # "calorieninjas"
        /\ Matches(b.food_text, Words({"butter", "ghee", "oil", "amul"}))
        /\ declared \/ IsSome(parsed)
        /\ scaledCalories < K(5 * (IF declared THEN Get(b.grams) ELSE Get(parsed)))

====
